---- MODULE Spec2Model ----
(***************************************************************************)
(* WebSocket-Scalable-Chat: the per-process connection registry            *)
(* (backend/connection_manager.py), the Redis pub/sub relay                *)
(* (backend/redis_manager.py) and the gateway endpoint (backend/main.py),  *)
(* run as several server processes that share one broker.                  *)
(***************************************************************************)
EXTENDS Integers, Sequences, FiniteSets, TLC

\* ------------------------------------------------------------ bounds
NumConns    == 4   \* WebSocket handles: all but the last land on p1, the last on p2
MaxRequests == 2   \* connection requests the servers get
MaxRoomRequests == 3   \* connection requests one process gets for one room
MaxEvents   == 2   \* client texts, foreign payloads, loop ends and raising calls
NumUsers    == 2   \* user ids a direct caller of ConnectionManager may pass

\* ------------------------------------------------------------ universe
Procs == {"p1", "p2"}
Conns == 1..NumConns
UserIds == 1..NumUsers
\* The server process a client's connection lands on.
Home(c) == IF c = NumConns THEN "p2" ELSE "p1"
\* The process whose ConnectionManager the direct-call specification drives.
ApiProc == "p1"

None == "<None>"
DefaultRooms == {"general", "random", "tech"}
\* Room ids a client may ask for: two default rooms and one no process has.
ReqRooms == {"general", "random", "nope"}
\* ?username=...; "Anonymous" when the query parameter is absent.
UsernamesOf(c) == IF c = 1 THEN {"alice"} ELSE IF c = 2 THEN {"bob"} ELSE {"Anonymous"}
ClientTexts == {"hi"}

VARIABLES
  phase,        \* per process: "constructed" | "running" | "failed"
  rooms_db,     \* per process: ids of rooms_db
  cm,           \* per process: ConnectionManager fields
  rm,           \* per process: RedisManager fields
  subs,         \* broker: channels each process's pubsub handle is subscribed to
  inbox,        \* broker -> process: events pubsub.listen() has yet to yield
  bc,           \* per process: frame of the listener's broadcast_to_room call
  pc,           \* per connection: position of websocket_endpoint
  req,          \* per connection: locals of websocket_endpoint
  close_reason, \* per connection: reason given to websocket.close
  received,     \* per connection: texts send_text delivered, with their channel room
  pubcalls,     \* per connection: publish_message calls made for join and leave
  loop_end,     \* per connection: what ended the receive loop
  chats,        \* client texts read so far
  foreign,      \* foreign payloads published so far
  sent,         \* chat messages the receive loops gave to publish_message
  owed,         \* <<message, connection>>: subscribed and registered at publish
  faults,       \* calls into the broker or a socket that have raised
  ended,        \* receive loops that have ended
  handled,      \* per process: messages the listener handed to the handler
  bad,          \* per process: data messages whose processing raised
  tasks,        \* per process: listener tasks created and not yet finished
  dropped,      \* messages whose publish_message call published nothing
  leave_owed    \* <<leave message, connection>>: registered in the room at publish

vars == << phase, rooms_db, cm, rm, subs, inbox, bc, pc, req, close_reason,
           received, pubcalls, loop_end, chats, foreign, sent, owed, faults, ended,
           handled, bad, tasks, dropped, leave_owed >>

\* ------------------------------------------------------------ dict helpers
EmptyDict == [k \in {} |-> {}]
Put(d, k, v) == [x \in (DOMAIN d) \cup {k} |-> IF x = k THEN v ELSE d[x]]
Del(d, k) == [x \in (DOMAIN d) \ {k} |-> d[x]]
Truthy(s) == s # None /\ s # ""

\* ------------------------------------------------------------ models.py
\* A user whose id is the same for every connection instead of a fresh one.
User_SharedId(id, username, current_room) ==
  [id |-> 0, username |-> username, current_room |-> current_room]
User(id, username, current_room) ==
  [id |-> id, username |-> username, current_room |-> current_room]

\* MessageType: member name -> wire value.
MessageTypes == {"CHAT", "JOIN", "LEAVE", "TYPING", "SYSTEM"}
EnumValue(t) ==
  CASE t = "CHAT" -> "chat" [] t = "JOIN" -> "join" [] t = "LEAVE" -> "leave"
    [] t = "TYPING" -> "typing" [] t = "SYSTEM" -> "system"
WireTypes == {EnumValue(t) : t \in MessageTypes}
EnumOf(v) == CHOOSE t \in MessageTypes : EnumValue(t) = v

\* content: the parts an f-string joins, in order.
\* timestamp: the creation instant, kept as the number of client texts and
\* foreign payloads that came before the message was built.
Message(user_id, username, room_id, content, message_type, timestamp) ==
  [user_id |-> user_id, username |-> username, room_id |-> room_id,
   content |-> content, message_type |-> message_type, timestamp |-> timestamp]
NoMsg == Message(0, None, None, << >>, None, 0)

\* A broker payload: text that parses as a JSON object, or text that does not.
JsonText(obj) == [text |-> "json", obj |-> obj]
RawText == [text |-> "raw", obj |-> NoMsg]

\* Message.model_dump_json(): the enum goes out as its value.
model_dump_json(m) == JsonText([m EXCEPT !.message_type = EnumValue(m.message_type)])

\* json.loads(data) then Message(**data): raises on text that is no JSON and
\* on a message_type that is no MessageType value.
Decodable(data) == data.text = "json" /\ data.obj.message_type \in WireTypes
Decode(data) == [data.obj EXCEPT !.message_type = EnumOf(data.obj.message_type)]

\* ------------------------------------------------------------ ConnectionManager
CM_init ==
  [active_connections |-> EmptyDict,
   user_sessions      |-> EmptyDict,
   room_members       |-> EmptyDict]

\* A connect that adds the connection to the room and records no session.
CM_connect_NoSession(reg, websocket, user, room_id) ==
  LET fresh == room_id \notin DOMAIN reg.active_connections
      ac0 == IF fresh THEN Put(reg.active_connections, room_id, {})
                      ELSE reg.active_connections
      mem0 == IF fresh THEN Put(reg.room_members, room_id, {})
                       ELSE reg.room_members
  IN [active_connections |-> Put(ac0, room_id, ac0[room_id] \cup {websocket}),
      room_members       |-> Put(mem0, room_id, mem0[room_id] \cup {user.id}),
      user_sessions      |-> reg.user_sessions]
\* connect(), after `await websocket.accept()` has returned.
CM_connect(reg, websocket, user, room_id) ==
  LET fresh == room_id \notin DOMAIN reg.active_connections
      ac0 == IF fresh THEN Put(reg.active_connections, room_id, {})
                      ELSE reg.active_connections
      mem0 == IF fresh THEN Put(reg.room_members, room_id, {})
                       ELSE reg.room_members
  IN [active_connections |-> Put(ac0, room_id, ac0[room_id] \cup {websocket}),
      room_members       |-> Put(mem0, room_id, mem0[room_id] \cup {user.id}),
      user_sessions      |-> Put(reg.user_sessions, websocket,
                                 [user EXCEPT !.current_room = room_id])]

\* A room branch that leaves the emptied room in both maps.
CM_leave_room_KeepsEmpty(reg, websocket, user, room_id) ==
  [reg EXCEPT !.active_connections = Put(reg.active_connections, room_id,
                                         reg.active_connections[room_id] \ {websocket}),
              !.room_members = Put(reg.room_members, room_id,
                                   reg.room_members[room_id] \ {user.id})]
\* The room branch of disconnect(): discard from both sets, drop an empty room.
CM_leave_room(reg, websocket, user, room_id) ==
  LET ac1 == Put(reg.active_connections, room_id,
                 reg.active_connections[room_id] \ {websocket})
      mem1 == Put(reg.room_members, room_id,
                  reg.room_members[room_id] \ {user.id})
  IN IF ac1[room_id] = {}
       THEN [reg EXCEPT !.active_connections = Del(ac1, room_id),
                        !.room_members = Del(mem1, room_id)]
       ELSE [reg EXCEPT !.active_connections = ac1, !.room_members = mem1]

\* A disconnect that takes an unknown connection for the last one of every room.
CM_disconnect_Unguarded(reg, websocket) ==
  IF websocket \notin DOMAIN reg.user_sessions
    THEN [reg EXCEPT !.active_connections = EmptyDict, !.room_members = EmptyDict]
  ELSE LET user == reg.user_sessions[websocket]
           room_id == user.current_room
           r1 == IF Truthy(room_id) /\ room_id \in DOMAIN reg.active_connections
                   THEN CM_leave_room(reg, websocket, user, room_id)
                   ELSE reg
       IN [r1 EXCEPT !.user_sessions = Del(r1.user_sessions, websocket)]
CM_disconnect(reg, websocket) ==
  IF websocket \notin DOMAIN reg.user_sessions THEN reg
  ELSE LET user == reg.user_sessions[websocket]
           room_id == user.current_room
           r1 == IF Truthy(room_id) /\ room_id \in DOMAIN reg.active_connections
                   THEN CM_leave_room(reg, websocket, user, room_id)
                   ELSE reg
       IN [r1 EXCEPT !.user_sessions = Del(r1.user_sessions, websocket)]

get_room_member_count(reg, room_id) ==
  IF room_id \in DOMAIN reg.room_members
    THEN Cardinality(reg.room_members[room_id]) ELSE 0

\* get_all_rooms(): room id -> len(members), over room_members.items().
get_all_rooms(reg) ==
  [room_id \in DOMAIN reg.room_members |-> Cardinality(reg.room_members[room_id])]

\* Optional[User]: << >> is None, << u >> is the session u.
get_user_info(reg, websocket) ==
  IF websocket \in DOMAIN reg.user_sessions
    THEN << reg.user_sessions[websocket] >> ELSE << >>

\* ------------------------------------------------------------ initial state
NoFrame ==
  [status |-> "idle", room |-> None, msg |-> NoMsg, via |-> << >>,
   it_size |-> 0, it_live |-> FALSE,
   visited |-> {}, cur |-> 0, disconnected |-> {}, start_set |-> {},
   touched |-> FALSE]

RM_init ==
  [redis_client |-> None, pubsub |-> None, listener_task |-> None,
   message_handler |-> None]

NoReq == [room_id |-> None, username |-> None, user_id |-> 0]

Init ==
  /\ phase = [i \in Procs |-> "constructed"]
  /\ rooms_db = [i \in Procs |-> {}]
  /\ cm = [i \in Procs |-> CM_init]
  /\ rm = [i \in Procs |-> RM_init]
  /\ subs = [i \in Procs |-> {}]
  /\ inbox = [i \in Procs |-> << >>]
  /\ bc = [i \in Procs |-> NoFrame]
  /\ pc = [c \in Conns |-> "idle"]
  /\ req = [c \in Conns |-> NoReq]
  /\ close_reason = [c \in Conns |-> None]
  /\ received = [c \in Conns |-> << >>]
  /\ pubcalls = [c \in Conns |-> [join |-> 0, leave |-> 0]]
  /\ loop_end = [c \in Conns |-> None]
  /\ chats = 0
  /\ foreign = 0
  /\ sent = {}
  /\ owed = {}
  /\ faults = 0
  /\ ended = 0
  /\ handled = [i \in Procs |-> 0]
  /\ bad = [i \in Procs |-> 0]
  /\ tasks = [i \in Procs |-> 0]
  /\ dropped = {}
  /\ leave_owed = {}

\* ------------------------------------------------------------ direct calls
\* A caller (a unit test, another module) driving one ConnectionManager
\* directly, with user ids of its own choosing and a fresh handle per connect.
ApiConnect(c, uid, room_id) ==
  /\ pc[c] = "idle"
  /\ cm' = [cm EXCEPT ![ApiProc] = CM_connect(@, c, User(uid, "user", None), room_id)]
  /\ pc' = [pc EXCEPT ![c] = "api_connected"]
  /\ req' = [req EXCEPT ![c] = [room_id |-> room_id, username |-> "user", user_id |-> uid]]
  /\ UNCHANGED << phase, rooms_db, rm, subs, inbox, bc, close_reason, received,
                  pubcalls, loop_end, chats, sent, foreign, owed, faults, ended, handled, bad,
                  tasks, dropped, leave_owed >>

ApiDisconnect(c) ==
  /\ cm' = [cm EXCEPT ![ApiProc] = CM_disconnect(@, c)]
  /\ pc' = [pc EXCEPT ![c] = IF @ = "api_connected" THEN "api_disconnected" ELSE @]
  /\ UNCHANGED << phase, rooms_db, rm, subs, inbox, bc, req, close_reason, received,
                  pubcalls, loop_end, chats, sent, foreign, owed, faults, ended, handled, bad,
                  tasks, dropped, leave_owed >>

NextCM ==
  \/ \E c \in Conns, uid \in UserIds, room_id \in ReqRooms : ApiConnect(c, uid, room_id)
  \/ \E c \in Conns : ApiDisconnect(c)

SpecCM == Init /\ [][NextCM]_vars

\* ------------------------------------------------------------ broker
\* Channel naming f"room:{room_id}": the prefix and the room id.
Channel(room_id) == << "room", room_id >>
\* A listener that takes every channel for the channel of one room.
RoomOfChannel_OneRoom(channel) == "general"
\* channel.split(":", 1)[1]
RoomOfChannel(channel) == channel[2]

NoPayload == [text |-> "none", obj |-> NoMsg]
Event(type, channel, data) == [type |-> type, channel |-> channel, data |-> data]

\* PUBLISH: the broker puts the payload on the stream of every pubsub handle
\* subscribed to the channel, in one step.
BrokerPublish(inb, sb, channel, data) ==
  [i \in Procs |-> IF channel \in sb[i]
                     THEN Append(inb[i], Event("message", channel, data))
                     ELSE inb[i]]

\* A publish_message that sends the message again when the publish raised.
publish_message_Retry(r, inb, sb, room_id, message, ok) ==
  IF r.redis_client = None THEN inb
  ELSE BrokerPublish(inb, sb, Channel(room_id), model_dump_json(message))
\* ------------------------------------------------------------ RedisManager
\* publish_message: the inboxes after the call. ok = FALSE: redis raises and
\* the error is logged.
publish_message(r, inb, sb, room_id, message, ok) ==
  IF r.redis_client = None THEN inb
  ELSE IF ok THEN BrokerPublish(inb, sb, Channel(room_id), model_dump_json(message))
  ELSE inb

\* A subscribe that drops the channels subscribed before.
subscribe_to_room_Replaces(r, s, room_id, ok) ==
  IF r.pubsub = None THEN s
  ELSE IF ok THEN {Channel(room_id)}
  ELSE s
\* subscribe_to_room: the process's subscriptions after the call.
subscribe_to_room(r, s, room_id, ok) ==
  IF r.pubsub = None THEN s
  ELSE IF ok THEN s \cup {Channel(room_id)}
  ELSE s

\* SUBSCRIBE is answered by a confirmation event on the same stream, also for
\* a channel the handle is subscribed to already.
subscribe_reply(r, q, room_id, ok) ==
  IF r.pubsub # None /\ ok
    THEN Append(q, Event("subscribe", Channel(room_id), NoPayload))
    ELSE q

\* connect(): the client and its pubsub handle.
RM_connect(r) == [r EXCEPT !.redis_client = "client", !.pubsub = "pubsub"]

set_message_handler(r, handler) == [r EXCEPT !.message_handler = handler]

\* A start that never looks at the task it has.
start_listener_task_Always(r) == [task |-> "running", created |-> 1]
\* start_listener_task(): the task the manager refers to after the call and
\* the number of tasks the call created.
start_listener_task(r) ==
  IF r.listener_task = None \/ r.listener_task = "done"
    THEN [task |-> "running", created |-> 1]
    ELSE [task |-> r.listener_task, created |-> 0]

\* What a publish_message call leaves unpublished: the message, when there is
\* no client or the publish raised.
Dropped(r, message, ok) == IF r.redis_client = None \/ ~ok THEN {message} ELSE {}

\* A listener whose try block stands outside its loop.
AfterProcessingError_Ends(task) == "done"
\* What the except clause around one data message leaves of the task.
AfterProcessingError(task) == task

\* ------------------------------------------------------------ bookkeeping
\* A call that returns (ok) or raises, within the budget of raising calls.
Events == chats + foreign + ended + faults
Raises(ok) ==
  /\ ~ok => Events < MaxEvents
  /\ faults' = IF ok THEN faults ELSE faults + 1
Registered(c) == c \in DOMAIN cm[Home(c)].user_sessions
Prune(o, cmNew) == {p \in o : p[2] \in DOMAIN cmNew[Home(p[2])].user_sessions}

\* The set object the sweep iterates is the room's entry for as long as the
\* entry is not deleted; a registry change on that room is noted on the frame.
Touch(f, room_id, before, after) ==
  IF f.status = "sending" /\ f.room = room_id /\ before # after
    THEN [f EXCEPT !.touched = TRUE,
                   !.it_live = @ /\ room_id \in DOMAIN after.active_connections]
    ELSE f

\* ------------------------------------------------------------ lifespan
Startup(i) ==
  /\ phase[i] = "constructed"
  /\ phase' = [phase EXCEPT ![i] = "running"]
  /\ LET r == set_message_handler(RM_connect(rm[i]), "handle_redis_message")
     IN /\ rm' = [rm EXCEPT ![i] = [r EXCEPT !.listener_task = start_listener_task(r).task]]
        /\ tasks' = [tasks EXCEPT ![i] = @ + start_listener_task(r).created]
  /\ rooms_db' = [rooms_db EXCEPT ![i] = @ \cup DefaultRooms]
  /\ UNCHANGED << cm, subs, inbox, bc, pc, req, close_reason, received, pubcalls,
                  loop_end, chats, sent, foreign, owed, faults, ended, handled, bad,
                  dropped, leave_owed >>

\* redis_manager.connect() raises: startup is abandoned.
StartupFails(i) ==
  /\ phase[i] = "constructed"
  /\ phase' = [phase EXCEPT ![i] = "failed"]
  /\ Raises(FALSE)
  /\ UNCHANGED << rooms_db, cm, rm, subs, inbox, bc, pc, req, close_reason, received,
                  pubcalls, loop_end, chats, sent, foreign, owed, ended, handled, bad,
                  tasks, dropped, leave_owed >>

\* ------------------------------------------------------------ websocket_endpoint
\* An endpoint that does not verify the room.
RoomExists_Unchecked(db, room_id) == TRUE
RoomExists(db, room_id) == room_id \in db

\* Handles the servers have been given; a process numbers its handles in the
\* order the requests arrive.
Arrived == {d \in Conns : pc[d] # "idle"}

\* Lines 158-171: build the user, verify the room; `limit` bounds the
\* requests the clients make.
RequestWithin(c, room_id, username, limit) ==
  /\ pc[c] = "idle"
  /\ phase[Home(c)] = "running"
  /\ Cardinality(Arrived) < limit
  /\ \A d \in Conns : (d < c /\ Home(d) = Home(c)) => d \in Arrived
  /\ req' = [req EXCEPT ![c] = [room_id |-> room_id, username |-> username, user_id |-> c]]
  /\ IF RoomExists(rooms_db[Home(c)], room_id)
       THEN /\ pc' = [pc EXCEPT ![c] = "accept"]
            /\ UNCHANGED close_reason
       ELSE /\ pc' = [pc EXCEPT ![c] = "closed"]
            /\ close_reason' = [close_reason EXCEPT ![c] = "Room not found"]
  /\ UNCHANGED << phase, rooms_db, cm, rm, subs, inbox, bc, received, pubcalls,
                  loop_end, chats, sent, foreign, owed, faults, ended, handled, bad,
                  tasks, dropped, leave_owed >>

Request(c, room_id, username) == RequestWithin(c, room_id, username, MaxRequests)

\* connection_manager.connect once accept() has returned.
Connect(c) ==
  LET i == Home(c)
      after == CM_connect(cm[i], c, User(req[c].user_id, req[c].username, req[c].room_id),
                          req[c].room_id)
  IN /\ pc[c] = "accept"
     /\ cm' = [cm EXCEPT ![i] = after]
     /\ bc' = [bc EXCEPT ![i] = Touch(@, req[c].room_id, cm[i], after)]
     /\ pc' = [pc EXCEPT ![c] = "subscribe"]
     /\ UNCHANGED << phase, rooms_db, rm, subs, inbox, req, close_reason, received,
                     pubcalls, loop_end, chats, sent, foreign, owed, faults, ended, handled, bad,
                  tasks, dropped, leave_owed >>

\* accept() raises (the client is gone): the endpoint ends, nothing registered.
AcceptFails(c) ==
  /\ pc[c] = "accept"
  /\ Raises(FALSE)
  /\ pc' = [pc EXCEPT ![c] = "closed"]
  /\ UNCHANGED << phase, rooms_db, cm, rm, subs, inbox, bc, req, close_reason, received,
                  pubcalls, loop_end, chats, sent, foreign, owed, ended, handled, bad,
                  tasks, dropped, leave_owed >>

\* redis_manager.subscribe_to_room(room_id)
Subscribe(c, ok) ==
  LET i == Home(c) IN
  /\ pc[c] = "subscribe"
  /\ subs' = [subs EXCEPT ![i] = subscribe_to_room(rm[i], @, req[c].room_id, ok)]
  /\ inbox' = [inbox EXCEPT ![i] = subscribe_reply(rm[i], @, req[c].room_id, ok)]
  /\ Raises(ok)
  /\ pc' = [pc EXCEPT ![c] = "join"]
  /\ UNCHANGED << phase, rooms_db, cm, rm, bc, req, close_reason, received, pubcalls,
                  loop_end, chats, sent, foreign, owed, ended, handled, bad,
                  tasks, dropped, leave_owed >>

JoinMessage(c) ==
  Message(req[c].user_id, req[c].username, req[c].room_id, << req[c].username, " joined the room" >>, "JOIN", chats + foreign)
LeaveMessage(c) ==
  Message(req[c].user_id, req[c].username, req[c].room_id, << req[c].username, " left the room" >>, "LEAVE", chats + foreign)
ChatMessage(c, data) ==
  Message(req[c].user_id, req[c].username, req[c].room_id, << data >>, "CHAT", chats + foreign)

\* Lines 179-187: the join notification.
PublishJoin(c, ok) ==
  /\ pc[c] = "join"
  /\ inbox' = publish_message(rm[Home(c)], inbox, subs, req[c].room_id, JoinMessage(c), ok)
  /\ pubcalls' = [pubcalls EXCEPT ![c].join = @ + 1]
  /\ dropped' = dropped \cup Dropped(rm[Home(c)], JoinMessage(c), ok)
  /\ Raises(ok)
  /\ pc' = [pc EXCEPT ![c] = "active"]
  /\ UNCHANGED << phase, rooms_db, cm, rm, subs, bc, req, close_reason, received,
                  loop_end, chats, sent, foreign, owed, ended, handled, bad,
                  tasks, leave_owed >>

\* Connections the claim of delivery covers for a message published now:
\* registered in the room on a process whose handle is subscribed to it.
Audience(room_id) ==
  {d \in Conns : /\ Registered(d)
                 /\ cm[Home(d)].user_sessions[d].current_room = room_id
                 /\ Channel(room_id) \in subs[Home(d)]}

\* Connections registered in the room on any process.
RoomMates(room_id) ==
  {d \in Conns : /\ Registered(d)
                 /\ cm[Home(d)].user_sessions[d].current_room = room_id}

\* A receive loop that echoes the text to its own socket as well.
LoopWrites_Echo(c, message) == << << Channel(message.room_id), message >> >>
\* What one turn of the receive loop sends on its own socket: nothing, the
\* loop only publishes.
LoopWrites(c, message) == << >>

\* Lines 190-204: one turn of the receive loop.
ReceiveText(c, data, ok) ==
  /\ pc[c] = "active"
  /\ received' = [received EXCEPT ![c] = @ \o LoopWrites(c, ChatMessage(c, data))]
  /\ Events + (IF ok THEN 1 ELSE 2) <= MaxEvents
  /\ chats' = chats + 1
  /\ sent' = sent \cup {ChatMessage(c, data)}
  /\ inbox' = publish_message(rm[Home(c)], inbox, subs, req[c].room_id, ChatMessage(c, data), ok)
  /\ owed' = IF ok THEN owed \cup {<< ChatMessage(c, data), d >> : d \in Audience(req[c].room_id)}
                   ELSE owed
  /\ dropped' = dropped \cup Dropped(rm[Home(c)], ChatMessage(c, data), ok)
  /\ Raises(ok)
  /\ UNCHANGED << phase, rooms_db, cm, rm, subs, bc, pc, req, close_reason,
                  pubcalls, loop_end, foreign, ended, handled, bad,
                  tasks, leave_owed >>

\* Lines 206-208: receive_text raises WebSocketDisconnect.
RecvDisconnect(c) ==
  LET i == Home(c)
      after == CM_disconnect(cm[i], c)
  IN /\ pc[c] = "active"
     /\ Events < MaxEvents
     /\ ended' = ended + 1
     /\ cm' = [cm EXCEPT ![i] = after]
     /\ bc' = [bc EXCEPT ![i] = Touch(@, req[c].room_id, cm[i], after)]
     /\ owed' = Prune(owed, cm')
     /\ leave_owed' = Prune(leave_owed, cm')
     /\ loop_end' = [loop_end EXCEPT ![c] = "WebSocketDisconnect"]
     /\ pc' = [pc EXCEPT ![c] = "leave"]
     /\ UNCHANGED << phase, rooms_db, rm, subs, inbox, req, close_reason, received,
                     pubcalls, chats, sent, foreign, faults, handled, bad,
                     tasks, dropped >>

\* Lines 210-220: the leave notification.
PublishLeave(c, ok) ==
  /\ pc[c] = "leave"
  /\ inbox' = publish_message(rm[Home(c)], inbox, subs, req[c].room_id, LeaveMessage(c), ok)
  /\ pubcalls' = [pubcalls EXCEPT ![c].leave = @ + 1]
  /\ dropped' = dropped \cup Dropped(rm[Home(c)], LeaveMessage(c), ok)
  /\ leave_owed' = IF Dropped(rm[Home(c)], LeaveMessage(c), ok) = {}
                     THEN leave_owed \cup {<< LeaveMessage(c), d >> : d \in RoomMates(req[c].room_id)}
                     ELSE leave_owed
  /\ Raises(ok)
  /\ pc' = [pc EXCEPT ![c] = "closed"]
  /\ UNCHANGED << phase, rooms_db, cm, rm, subs, bc, req, close_reason, received,
                  loop_end, chats, sent, foreign, owed, ended, handled, bad,
                  tasks >>

\* Lines 222-224: receive_text raises any other Exception.
RecvError(c) ==
  LET i == Home(c)
      after == CM_disconnect(cm[i], c)
  IN /\ pc[c] = "active"
     /\ Events < MaxEvents
     /\ ended' = ended + 1
     /\ cm' = [cm EXCEPT ![i] = after]
     /\ bc' = [bc EXCEPT ![i] = Touch(@, req[c].room_id, cm[i], after)]
     /\ owed' = Prune(owed, cm')
     /\ leave_owed' = Prune(leave_owed, cm')
     /\ loop_end' = [loop_end EXCEPT ![c] = "Exception"]
     /\ pc' = [pc EXCEPT ![c] = "closed"]
     /\ UNCHANGED << phase, rooms_db, rm, subs, inbox, req, close_reason, received,
                     pubcalls, chats, sent, foreign, faults, handled, bad,
                     tasks, dropped >>

\* ------------------------------------------------------------ broadcast_to_room
\* Lines 110-111: disconnect every connection whose send raised.
RECURSIVE CleanUp(_, _)
\* A clean-up that clears the whole registry once one send has failed.
CleanUp_Everyone(reg, disconnected) == IF disconnected = {} THEN reg ELSE CM_init
CleanUp(reg, disconnected) ==
  IF disconnected = {} THEN reg
  ELSE LET connection == CHOOSE x \in disconnected : TRUE
       IN CleanUp(CM_disconnect(reg, connection), disconnected \ {connection})

\* The set object the for loop iterates, as it is now.
IteratedSet(f, reg) ==
  IF f.it_live /\ f.room \in DOMAIN reg.active_connections
    THEN reg.active_connections[f.room] ELSE {}

\* A set iterator raises RuntimeError when the set's size is not the size it
\* had when the loop began.
SizeChanged(f, reg) == Cardinality(IteratedSet(f, reg)) # f.it_size

\* A broadcast that indexes the map without looking for the room first.
BroadcastFrames_NoCheck(reg, room_id, message) ==
  IF room_id \notin DOMAIN reg.active_connections
    THEN {[NoFrame EXCEPT !.status = "raised", !.room = room_id, !.msg = message]}
  ELSE IF reg.active_connections[room_id] = {}
    THEN {[NoFrame EXCEPT !.status = "done", !.room = room_id, !.msg = message]}
  ELSE {[status |-> "sending", room |-> room_id, msg |-> message, via |-> << >>,
         it_size |-> Cardinality(reg.active_connections[room_id]), it_live |-> TRUE,
         visited |-> {first}, cur |-> first, disconnected |-> {},
         start_set |-> reg.active_connections[room_id], touched |-> FALSE]
        : first \in reg.active_connections[room_id]}
\* Lines 93-102, up to the first send_text: the frame of the call.
BroadcastFrames(reg, room_id, message) ==
  IF room_id \notin DOMAIN reg.active_connections
    THEN {[NoFrame EXCEPT !.status = "noroom", !.room = room_id, !.msg = message]}
  ELSE IF reg.active_connections[room_id] = {}
    THEN {[NoFrame EXCEPT !.status = "done", !.room = room_id, !.msg = message]}
  ELSE {[status |-> "sending", room |-> room_id, msg |-> message, via |-> << >>,
         it_size |-> Cardinality(reg.active_connections[room_id]), it_live |-> TRUE,
         visited |-> {first}, cur |-> first, disconnected |-> {},
         start_set |-> reg.active_connections[room_id], touched |-> FALSE]
        : first \in reg.active_connections[room_id]}

\* Lines 103-107: what one send_text leaves in the `disconnected` set.
AfterSend(f, ok) ==
  IF ok THEN f ELSE [f EXCEPT !.disconnected = @ \cup {f.cur}]

\* The connections the iterator can yield next: those of the set not yet
\* yielded; one added during the sweep may sit behind the iterator and be
\* passed over.
MustVisit(f, reg) == (IteratedSet(f, reg) \cap f.start_set) \ f.visited
MayVisit(f, reg) == IteratedSet(f, reg) \ f.visited

\* ------------------------------------------------------------ start_listening
\* One event off pubsub.listen(), lines 139-155.
Listen(i) ==
  /\ rm[i].listener_task = "running"
  /\ bc[i].status # "sending"
  /\ inbox[i] # << >>
  /\ inbox' = [inbox EXCEPT ![i] = Tail(@)]
  /\ LET message == Head(inbox[i])
         room_id == RoomOfChannel(message.channel)
     IN IF message.type = "message" /\ Decodable(message.data)
               /\ rm[i].message_handler # None
          THEN /\ handled' = [handled EXCEPT ![i] = @ + 1]
               /\ \E f \in BroadcastFrames(cm[i], room_id, Decode(message.data)) :
                    bc' = [bc EXCEPT ![i] = [f EXCEPT !.via = message.channel]]
               /\ UNCHANGED << rm, bad >>
          ELSE IF message.type = "message"
          THEN /\ rm' = [rm EXCEPT ![i].listener_task = AfterProcessingError(@)]
               /\ bad' = [bad EXCEPT ![i] = @ + 1]
               /\ UNCHANGED << handled, bc >>
          ELSE UNCHANGED << rm, handled, bc, bad >>
  /\ UNCHANGED << phase, rooms_db, cm, subs, pc, req, close_reason, received,
                  pubcalls, loop_end, chats, sent, foreign, owed, faults, ended,
                  tasks, dropped, leave_owed >>

\* A send_text returns or raises; the sweep runs on to its next send_text, to
\* the RuntimeError of the iterator, or through the clean-up to its end.
SendDone(i, ok) ==
  /\ bc[i].status = "sending"
  /\ rm[i].listener_task = "running"
  /\ LET f == AfterSend(bc[i], ok)
         c == bc[i].cur
     IN /\ received' = IF ok THEN [received EXCEPT ![c] = Append(@, << f.via, f.msg >>)]
                             ELSE received
        /\ Raises(ok)
        /\ IF SizeChanged(f, cm[i])
             THEN /\ bc' = [bc EXCEPT ![i] = [f EXCEPT !.status = "raised"]]
                  /\ rm' = [rm EXCEPT ![i].listener_task = AfterProcessingError(@)]
                  /\ bad' = [bad EXCEPT ![i] = @ + 1]
                  /\ UNCHANGED << cm, owed, leave_owed >>
             ELSE \/ /\ \E n \in MayVisit(f, cm[i]) :
                          bc' = [bc EXCEPT ![i] = [f EXCEPT !.cur = n, !.visited = @ \cup {n}]]
                     /\ UNCHANGED << cm, owed, leave_owed, rm, bad >>
                  \/ /\ MustVisit(f, cm[i]) = {}
                     /\ cm' = [cm EXCEPT ![i] = CleanUp(@, f.disconnected)]
                     /\ bc' = [bc EXCEPT ![i] = [f EXCEPT !.status = "done"]]
                     /\ owed' = Prune(owed, cm')
                     /\ leave_owed' = Prune(leave_owed, cm')
                     /\ UNCHANGED << rm, bad >>
  /\ UNCHANGED << phase, rooms_db, subs, inbox, pc, req, close_reason,
                  pubcalls, loop_end, chats, sent, foreign, ended, handled,
                  tasks, dropped >>

\* pubsub.listen() itself raises (the broker connection drops): lines 158-159
\* end the task.
StreamError(i) ==
  /\ rm[i].listener_task = "running"
  /\ bc[i].status # "sending"
  /\ rm' = [rm EXCEPT ![i].listener_task = "done"]
  /\ tasks' = [tasks EXCEPT ![i] = @ - 1]
  /\ Raises(FALSE)
  /\ UNCHANGED << phase, rooms_db, cm, subs, inbox, bc, pc, req, close_reason, received,
                  pubcalls, loop_end, chats, sent, foreign, owed, ended, handled, bad,
                  dropped, leave_owed >>

\* ------------------------------------------------------------ other broker clients
\* What another client of the broker may put on a room channel: text that is
\* no JSON, a JSON object with an unknown message_type, and a well-formed
\* message whose room_id field names the room "tech".
ForeignMessage == Message(0, "mallory", "tech", << "x" >>, "SYSTEM", chats + foreign)
ForeignPayloads ==
  { RawText,
    JsonText([ForeignMessage EXCEPT !.message_type = "bogus"]),
    model_dump_json(ForeignMessage) }
ForeignRooms == {"general", "random"}

ForeignPublish(room_id, data) ==
  /\ Events < MaxEvents
  /\ foreign' = foreign + 1
  /\ inbox' = BrokerPublish(inbox, subs, Channel(room_id), data)
  /\ UNCHANGED << phase, rooms_db, cm, rm, subs, bc, pc, req, close_reason, received,
                  pubcalls, loop_end, chats, sent, owed, faults, ended, handled, bad,
                  tasks, dropped, leave_owed >>

\* ------------------------------------------------------------ the system
Next ==
  \/ \E i \in Procs : Startup(i)
  \/ \E i \in Procs : StartupFails(i)
  \/ \E c \in Conns, room_id \in ReqRooms : \E username \in UsernamesOf(c) : Request(c, room_id, username)
  \/ \E c \in Conns : Connect(c)
  \/ \E c \in Conns : AcceptFails(c)
  \/ \E c \in Conns, ok \in BOOLEAN : Subscribe(c, ok)
  \/ \E c \in Conns, ok \in BOOLEAN : PublishJoin(c, ok)
  \/ \E c \in Conns, data \in ClientTexts, ok \in BOOLEAN : ReceiveText(c, data, ok)
  \/ \E c \in Conns : RecvDisconnect(c)
  \/ \E c \in Conns, ok \in BOOLEAN : PublishLeave(c, ok)
  \/ \E c \in Conns : RecvError(c)
  \/ \E i \in Procs : Listen(i)
  \/ \E i \in Procs, ok \in BOOLEAN : SendDone(i, ok)
  \/ \E i \in Procs : StreamError(i)
  \/ \E room_id \in ForeignRooms, data \in ForeignPayloads : ForeignPublish(room_id, data)

Spec == Init /\ [][Next]_vars

\* ------------------------------------------------------------ RedisManager lifecycle
\* One RedisManager driven through its whole life, by the lifespan and by a
\* direct caller, with the gateway serving the connections of that process.
RmProc == "p2"

\* redis_manager.connect() called on its own: no handler, no listener.
ConnectOnly(i) ==
  /\ phase[i] = "constructed"
  /\ phase' = [phase EXCEPT ![i] = "connected"]
  /\ rm' = [rm EXCEPT ![i] = RM_connect(@)]
  /\ UNCHANGED << rooms_db, cm, subs, inbox, bc, pc, req, close_reason, received,
                  pubcalls, loop_end, chats, sent, foreign, owed, faults, ended,
                  handled, bad, tasks, dropped, leave_owed >>

\* A call of start_listener_task(), the first or a further one.
StartListenerTask(i) ==
  /\ phase[i] \in {"connected", "running"}
  /\ rm' = [rm EXCEPT ![i].listener_task = start_listener_task(rm[i]).task]
  /\ tasks' = [tasks EXCEPT ![i] = @ + start_listener_task(rm[i]).created]
  /\ UNCHANGED << phase, rooms_db, cm, subs, inbox, bc, pc, req, close_reason, received,
                  pubcalls, loop_end, chats, sent, foreign, owed, faults, ended,
                  handled, bad, dropped, leave_owed >>

\* A notice some caller of this process publishes; it is counted with the
\* foreign payloads.
ApiMessage(room_id) == Message(0, "system", room_id, << "notice" >>, "SYSTEM", chats + foreign)

\* publish_message called directly, whatever the manager's state.
ApiPublish(i, room_id, ok) ==
  /\ Events < MaxEvents
  /\ rm[i].redis_client = None => ok
  /\ foreign' = foreign + 1
  /\ inbox' = publish_message(rm[i], inbox, subs, room_id, ApiMessage(room_id), ok)
  /\ dropped' = dropped \cup Dropped(rm[i], ApiMessage(room_id), ok)
  /\ Raises(ok)
  /\ UNCHANGED << phase, rooms_db, cm, rm, subs, bc, pc, req, close_reason, received,
                  pubcalls, loop_end, chats, sent, owed, ended, handled, bad,
                  tasks, leave_owed >>

\* Task.cancel(): a finished task stays finished.
Cancel(task) == IF task = "running" THEN "cancel_requested" ELSE task

\* A disconnect that does not await the task it cancelled.
ListenerStopped_NoWait(task) == TRUE
\* `await self.listener_task` returns once the task has finished.
ListenerStopped(task) == task = "done"

\* disconnect(), lines 48-49: cancel the listener if there is one.
DisconnectBegin(i) ==
  /\ phase[i] \in {"constructed", "connected", "running"}
  /\ IF rm[i].listener_task # None
       THEN /\ rm' = [rm EXCEPT ![i].listener_task = Cancel(@)]
            /\ phase' = [phase EXCEPT ![i] = "await_listener"]
       ELSE /\ phase' = [phase EXCEPT ![i] = "close_pubsub"]
            /\ UNCHANGED rm
  /\ UNCHANGED << rooms_db, cm, subs, inbox, bc, pc, req, close_reason, received,
                  pubcalls, loop_end, chats, sent, foreign, owed, faults, ended,
                  handled, bad, tasks, dropped, leave_owed >>

\* The listener is resumed with CancelledError at the await it is suspended
\* in, pubsub.listen() or a send_text of the handler's sweep; lines 156-157
\* catch it and the task finishes.
ListenerCancelled(i) ==
  /\ rm[i].listener_task = "cancel_requested"
  /\ rm' = [rm EXCEPT ![i].listener_task = "done"]
  /\ tasks' = [tasks EXCEPT ![i] = @ - 1]
  /\ bc' = [bc EXCEPT ![i] = IF @.status = "sending" THEN [@ EXCEPT !.status = "cancelled"] ELSE @]
  /\ UNCHANGED << phase, rooms_db, cm, subs, inbox, pc, req, close_reason, received,
                  pubcalls, loop_end, chats, sent, foreign, owed, faults, ended,
                  handled, bad, dropped, leave_owed >>

\* disconnect(), lines 50-53: the await on the task returns.
DisconnectAwaited(i) ==
  /\ phase[i] = "await_listener"
  /\ ListenerStopped(rm[i].listener_task)
  /\ phase' = [phase EXCEPT ![i] = "close_pubsub"]
  /\ UNCHANGED << rooms_db, cm, rm, subs, inbox, bc, pc, req, close_reason, received,
                  pubcalls, loop_end, chats, sent, foreign, owed, faults, ended,
                  handled, bad, tasks, dropped, leave_owed >>

\* disconnect(), lines 55-56: the handle is closed and the broker forgets its
\* subscriptions.
ClosePubsub(i) ==
  /\ phase[i] = "close_pubsub"
  /\ phase' = [phase EXCEPT ![i] = "close_client"]
  /\ IF rm[i].pubsub # None
       THEN /\ rm' = [rm EXCEPT ![i].pubsub = "closed"]
            /\ subs' = [subs EXCEPT ![i] = {}]
            /\ inbox' = [inbox EXCEPT ![i] = << >>]
       ELSE UNCHANGED << rm, subs, inbox >>
  /\ UNCHANGED << rooms_db, cm, bc, pc, req, close_reason, received,
                  pubcalls, loop_end, chats, sent, foreign, owed, faults, ended,
                  handled, bad, tasks, dropped, leave_owed >>

\* disconnect(), lines 58-61.
CloseClient(i) ==
  /\ phase[i] = "close_client"
  /\ phase' = [phase EXCEPT ![i] = "stopped"]
  /\ rm' = [rm EXCEPT ![i].redis_client = IF @ # None THEN "closed" ELSE @]
  /\ UNCHANGED << rooms_db, cm, subs, inbox, bc, pc, req, close_reason, received,
                  pubcalls, loop_end, chats, sent, foreign, owed, faults, ended,
                  handled, bad, tasks, dropped, leave_owed >>

NextRM ==
  \/ Startup(RmProc)
  \/ ConnectOnly(RmProc)
  \/ StartListenerTask(RmProc)
  \/ \E room_id \in ForeignRooms, ok \in BOOLEAN : ApiPublish(RmProc, room_id, ok)
  \/ DisconnectBegin(RmProc)
  \/ ListenerCancelled(RmProc)
  \/ DisconnectAwaited(RmProc)
  \/ ClosePubsub(RmProc)
  \/ CloseClient(RmProc)
  \/ \E c \in Conns, room_id \in ReqRooms : \E username \in UsernamesOf(c) : Request(c, room_id, username)
  \/ \E c \in Conns : Connect(c)
  \/ \E c \in Conns, ok \in BOOLEAN : Subscribe(c, ok)
  \/ \E c \in Conns, ok \in BOOLEAN : PublishJoin(c, ok)
  \/ \E c \in Conns, data \in ClientTexts, ok \in BOOLEAN : ReceiveText(c, data, ok)
  \/ \E c \in Conns : RecvDisconnect(c)
  \/ \E c \in Conns, ok \in BOOLEAN : PublishLeave(c, ok)
  \/ Listen(RmProc)
  \/ \E ok \in BOOLEAN : SendDone(RmProc, ok)
  \/ StreamError(RmProc)

SpecRM == Init /\ [][NextRM]_vars

\* The event loop runs every task that is ready: the cancelled listener and
\* the disconnect call go on.
SpecRMFair ==
  /\ SpecRM
  /\ WF_vars(ListenerCancelled(RmProc))
  /\ WF_vars(DisconnectAwaited(RmProc))
  /\ WF_vars(ClosePubsub(RmProc))
  /\ WF_vars(CloseClient(RmProc))

\* ------------------------------------------------------------ one room
\* One process and the comings and goings in one of its rooms, with every
\* call into the broker and every send succeeding.
RoomProc == "p1"
TheRoom == "general"

NextRoom ==
  \/ Startup(RoomProc)
  \/ \E c \in Conns : \E username \in UsernamesOf(c) :
       RequestWithin(c, TheRoom, username, MaxRoomRequests)
  \/ \E c \in Conns : Connect(c)
  \/ \E c \in Conns : Subscribe(c, TRUE)
  \/ \E c \in Conns : PublishJoin(c, TRUE)
  \/ \E c \in Conns : RecvDisconnect(c)
  \/ \E c \in Conns : PublishLeave(c, TRUE)
  \/ Listen(RoomProc)
  \/ SendDone(RoomProc, TRUE)

SpecRoom == Init /\ [][NextRoom]_vars

\* ------------------------------------------------------------ claims
\* Connections a direct caller has registered and not yet disconnected.
ApiLive == {c \in Conns : pc[c] = "api_connected"}
ApiLiveIn(room_id) == {c \in ApiLive : req[c].room_id = room_id}

\* C1: after any sequence of connect/disconnect calls, for any user ids,
\* get_room_member_count(room) is the number of distinct user ids of the
\* connections still registered in the room, and a room whose count is 0 has
\* no entry in active_connections or room_members.
C1_MemberCountIsDistinctUsers ==
  \A room_id \in ReqRooms :
    /\ get_room_member_count(cm[ApiProc], room_id)
         = Cardinality({req[c].user_id : c \in ApiLiveIn(room_id)})
    /\ get_room_member_count(cm[ApiProc], room_id) = 0
         => /\ room_id \notin DOMAIN cm[ApiProc].active_connections
            /\ room_id \notin DOMAIN cm[ApiProc].room_members

\* ------------------------------------------------------------ delivery
HasReceived(c, m) == \E k \in 1..Len(received[c]) : received[c][k][2] = m
Count(c, m) == Cardinality({k \in 1..Len(received[c]) : received[c][k][2] = m})

\* The message is on its way to some process or being swept there.
InFlight(m) ==
  \E i \in Procs :
    \/ \E k \in 1..Len(inbox[i]) : inbox[i][k].data = model_dump_json(m)
    \/ bc[i].status = "sending" /\ bc[i].msg = m

\* C2: with no broker call, send or listener failing, a chat message that
\* was submitted is delivered to every connection that was registered in its
\* room (on a process subscribed to the room) when it was published and has
\* stayed registered, once the relay has carried the message through.
C2_SubmittedMessageReachesEveryConnection ==
  \A p \in owed : (faults = 0 /\ ~InFlight(p[1])) => HasReceived(p[2], p[1])

\* C3: a finished broadcast_to_room in which exactly one send_text raised
\* has delivered to every other connection of the room, has passed the
\* failing one to disconnect (get_user_info is None for it), and has not
\* raised to its caller.
C3_OneFailedSendIsIsolated ==
  \A i \in Procs :
    LET f == bc[i] IN
    (f.status \in {"done", "raised"} /\ Cardinality(f.disconnected) = 1)
      => /\ f.status = "done"
         /\ \A c \in f.start_set \ f.disconnected : c \in f.visited /\ HasReceived(c, f.msg)
         /\ \A c \in f.disconnected : get_user_info(cm[i], c) = << >>

\* The same, for the calls during which no other task changed the room.
C3_IsolatedWhenRoomUntouched ==
  \A i \in Procs :
    LET f == bc[i] IN
    (f.status \in {"done", "raised"} /\ Cardinality(f.disconnected) = 1 /\ ~f.touched)
      => /\ f.status = "done"
         /\ \A c \in f.start_set \ f.disconnected : c \in f.visited /\ HasReceived(c, f.msg)
         /\ \A c \in f.disconnected : get_user_info(cm[i], c) = << >>

\* The registry holds exactly the connections of the sessions it records.
RegistryAgrees(reg) ==
  /\ DOMAIN reg.active_connections = DOMAIN reg.room_members
  /\ \A room_id \in DOMAIN reg.active_connections :
       /\ reg.active_connections[room_id]
            = {c \in DOMAIN reg.user_sessions : reg.user_sessions[c].current_room = room_id}
       /\ reg.room_members[room_id]
            = {reg.user_sessions[c].id : c \in reg.active_connections[room_id]}
  /\ \A c \in DOMAIN reg.user_sessions :
       reg.user_sessions[c].current_room \in DOMAIN reg.active_connections

\* C4: a connect or disconnect on the room while the sweep is suspended in a
\* send_text does not abort it: when the call has ended, every connection that
\* was in the room at its start and is still registered has had a delivery
\* attempt, every connection whose send failed has been disconnected, and the
\* room's sets have lost no update.
C4_SweepSurvivesRegistryChange ==
  \A i \in Procs :
    LET f == bc[i] IN
    /\ RegistryAgrees(cm[i])
    /\ f.status \in {"done", "raised"}
         => /\ \A c \in f.start_set : c \in DOMAIN cm[i].user_sessions => c \in f.visited
            /\ \A c \in f.disconnected : c \notin DOMAIN cm[i].user_sessions

\* C5: a message published on the channel of room A is never sent to a
\* connection registered in another room.
C5_NoDeliveryAcrossRooms ==
  \A c \in Conns : \A k \in 1..Len(received[c]) :
    received[c][k][1] = Channel(req[c].room_id)

\* Two connections of one process sit in different rooms and one of them has
\* been sent a message.
C5_Witness ==
  \E c \in Conns, d \in Conns :
    /\ Home(c) = Home(d) /\ Registered(c) /\ Registered(d)
    /\ req[c].room_id # req[d].room_id
    /\ received[c] # << >>


OnTheWay == UNION {{inbox[i][k].data.obj : k \in 1..Len(inbox[i])} : i \in Procs}
Notices(c) ==
  {o \in OnTheWay : o.user_id = req[c].user_id /\ o.message_type \in {"join", "leave"}}

\* C7: every connection that was registered has had exactly one join message
\* published, and once its endpoint has ended exactly one leave message, each
\* with its username and room id; looked at in the runs where no call into
\* the broker or a socket has raised.
C7_OneJoinAndOneLeavePerConnection ==
  \A c \in Conns :
    /\ pc[c] \in {"active", "leave"} => pubcalls[c].join = 1
    /\ (pc[c] = "closed" /\ loop_end[c] # None /\ faults = 0)
         => pubcalls[c] = [join |-> 1, leave |-> 1]
    /\ \A o \in Notices(c) : o.username = req[c].username /\ o.room_id = req[c].room_id

\* C8: when a receive loop has ended, by a transport disconnect or by any
\* other error, and its endpoint has returned, the connection is out of the
\* registry and a leave message has been published for it; looked at in the
\* runs where no call into the broker or a socket has raised.
C8_BothCleanupStepsRun ==
  \A c \in Conns :
    (loop_end[c] # None /\ pc[c] = "closed" /\ faults = 0)
      => /\ ~Registered(c)
         /\ pubcalls[c].leave >= 1

\* C9: a request for a room id that is not in rooms_db is closed with
\* "Room not found" in the same step, which leaves the registry, the
\* subscriptions and the broker untouched; such a connection is never
\* registered, never published for and never sent to.
C9_UnknownRoomIsRejected ==
  /\ [][\A c \in Conns :
          (pc[c] = "idle" /\ pc'[c] # "idle" /\ req'[c].room_id \notin rooms_db[Home(c)])
            => /\ pc'[c] = "closed"
               /\ close_reason'[c] = "Room not found"
               /\ cm' = cm /\ subs' = subs /\ inbox' = inbox /\ pubcalls' = pubcalls]_vars
  /\ [](\A c \in Conns :
          close_reason[c] = "Room not found"
            => /\ pc[c] = "closed"
               /\ ~Registered(c)
               /\ pubcalls[c] = [join |-> 0, leave |-> 0]
               /\ received[c] = << >>)

\* A request for the unknown room has been closed while another connection
\* of the same process is registered.
C9_Witness ==
  \E c \in Conns, d \in Conns :
    /\ close_reason[c] = "Room not found" /\ req[c].room_id = "nope"
    /\ Home(d) = Home(c) /\ Registered(d)

\* C10: the listener outlives every data message whose decoding or handling
\* raises; each event it takes off the stream is handed to the handler exactly
\* when it is a decodable data message; only an error of the stream itself
\* ends the task.
C10_ListenerSurvivesBadMessages ==
  [][\A i \in Procs :
       /\ (inbox[i] # << >> /\ inbox'[i] = Tail(inbox[i]))
            => /\ rm'[i].listener_task = "running"
               /\ handled'[i] = handled[i]
                    + (IF Head(inbox[i]).type = "message" /\ Decodable(Head(inbox[i]).data)
                         THEN 1 ELSE 0)
       /\ (bc[i].status = "sending" /\ bc'[i].status = "raised")
            => rm'[i].listener_task = "running"
       /\ (rm[i].listener_task = "running" /\ rm'[i].listener_task # "running")
            => faults' = faults + 1 /\ bad' = bad /\ inbox' = inbox]_vars

\* After an undecodable payload and after a handler that raised, the listener
\* is inside the handler for a later message.
C10_Witness ==
  \E i \in Procs :
    /\ bad[i] >= 2 /\ foreign >= 1
    /\ rm[i].listener_task = "running"
    /\ bc[i].status = "sending"

\* ------------------------------------------------------------ lifecycle claims
Stopping == {"await_listener", "close_pubsub", "close_client"}

\* C11: disconnect closes the pubsub handle only once the listener task has
\* stopped (or never existed) and the client only after the handle; once
\* either is closed no message is handed to the handler and nothing is sent to
\* a socket of the process; the cancelled listener finishes without an error;
\* and a disconnect that has begun, with or without a listener, runs to its
\* end.
C11_ListenerStopsBeforeTheConnectionCloses ==
  /\ [][\A i \in Procs :
          /\ (rm'[i].pubsub = "closed" /\ rm[i].pubsub # "closed")
               => rm[i].listener_task \in {None, "done"} /\ tasks[i] = 0
          /\ (rm'[i].redis_client = "closed" /\ rm[i].redis_client # "closed")
               => rm[i].pubsub = "closed" /\ rm[i].listener_task \in {None, "done"}
          /\ (handled'[i] # handled[i])
               => rm[i].pubsub # "closed" /\ rm[i].redis_client # "closed"
          /\ (rm[i].listener_task = "cancel_requested" /\ rm'[i].listener_task # "cancel_requested")
               => rm'[i].listener_task = "done" /\ faults' = faults /\ tasks'[i] = 0]_vars
  /\ [][\A c \in Conns :
          received'[c] # received[c] => rm[Home(c)].redis_client # "closed"
                                          /\ rm[Home(c)].pubsub # "closed"]_vars
  /\ \A i \in Procs : (phase[i] \in Stopping) ~> (phase[i] = "stopped")

\* A disconnect has run to its end after cancelling the listener in the
\* middle of a sweep.
C11_Witness ==
  /\ phase[RmProc] = "stopped"
  /\ rm[RmProc].redis_client = "closed"
  /\ bc[RmProc].status = "cancelled"
  /\ handled[RmProc] >= 1

\* C12: a publish_message call that finds no client, or whose publish raises,
\* returns to its caller as a successful one does (the endpoint moves on, the
\* receive loop stays in the loop), puts nothing on any stream, leaves the
\* registry, the manager and the subscriptions as they were, and the message
\* is never published later: no stream carries it and no handler is given it.
C12_FailedPublishIsDroppedQuietly ==
  /\ [][dropped' # dropped
          => /\ inbox' = inbox /\ cm' = cm /\ rm' = rm /\ subs' = subs
             /\ loop_end' = loop_end /\ received' = received
             /\ \A c \in Conns :
                  pc'[c] # pc[c] => \/ pc[c] = "join" /\ pc'[c] = "active"
                                    \/ pc[c] = "leave" /\ pc'[c] = "closed"]_vars
  /\ [](\A m \in dropped :
          /\ \A i \in Procs : bc[i].msg # m
          /\ \A i \in Procs : \A k \in 1..Len(inbox[i]) : inbox[i][k].data # model_dump_json(m)
          /\ \A c \in Conns : ~HasReceived(c, m))

\* A chat message was dropped by a publish that raised and its sender is
\* still registered and in its receive loop, with the listener running.
C12_Witness ==
  \E c \in Conns : \E m \in dropped :
    /\ m.message_type = "CHAT" /\ m.user_id = req[c].user_id
    /\ pc[c] = "active" /\ Registered(c)
    /\ rm[Home(c)].listener_task = "running"

\* ------------------------------------------------------------ registry claims
\* Rooms whose connection set holds the connection.
RoomsOf(reg, websocket) ==
  {room_id \in DOMAIN reg.active_connections : websocket \in reg.active_connections[room_id]}

\* C13: in every reachable state of every ConnectionManager a connection is
\* in the set of at most one room, it is in a set exactly when it has a
\* session, and that session's current_room is the room whose set holds it.
C13_OneRoomPerConnection ==
  \A i \in Procs : \A c \in Conns :
    /\ Cardinality(RoomsOf(cm[i], c)) <= 1
    /\ RoomsOf(cm[i], c) # {} <=> c \in DOMAIN cm[i].user_sessions
    /\ c \in DOMAIN cm[i].user_sessions
         => RoomsOf(cm[i], c) = {cm[i].user_sessions[c].current_room}

\* A connection has come and gone on a process where another one, in another
\* room, is registered.
C13_Witness ==
  \E c \in Conns, d \in Conns :
    /\ c # d /\ Home(c) = Home(d)
    /\ loop_end[c] # None /\ ~Registered(c)
    /\ Registered(d) /\ req[d].room_id # req[c].room_id

\* Connections whose session names the room.
SessionsIn(reg, room_id) ==
  {c \in DOMAIN reg.user_sessions : reg.user_sessions[c].current_room = room_id}

\* C14: active_connections and room_members always have the same room ids as
\* keys, no tracked room has an empty connection set, and the step after
\* which a room has no connection left, a gateway disconnect or the clean-up
\* of a sweep, is the step that removes the room from both maps.
C14_RoomMapsMoveTogether ==
  /\ [](\A i \in Procs :
          /\ DOMAIN cm[i].active_connections = DOMAIN cm[i].room_members
          /\ \A room_id \in DOMAIN cm[i].active_connections :
               cm[i].active_connections[room_id] # {})
  /\ [][\A i \in Procs : \A room_id \in DOMAIN cm[i].active_connections :
          SessionsIn(cm'[i], room_id) = {}
            <=> /\ room_id \notin DOMAIN cm'[i].active_connections
                /\ room_id \notin DOMAIN cm'[i].room_members]_vars

\* The clean-up of a sweep has removed a room's last connection, and its room
\* with it, on a process that tracks another room.
C14_Witness ==
  \E i \in Procs :
    /\ bc[i].status = "done" /\ bc[i].disconnected # {}
    /\ bc[i].room \notin DOMAIN cm[i].active_connections
    /\ bc[i].room \notin DOMAIN cm[i].room_members
    /\ DOMAIN cm[i].active_connections # {}

\* ------------------------------------------------------------ listener task claims
Unfinished == {"running", "cancel_requested"}

\* C15: a RedisManager never has more than one unfinished listener task, and
\* the task it refers to is that one; start_listener_task called while that
\* task is unfinished creates nothing and leaves the reference as it is, and
\* a task is created only by a call that finds no task or a finished one.
C15_AtMostOneListenerTask ==
  /\ [](\A i \in Procs :
          /\ tasks[i] <= 1
          /\ tasks[i] = 1 <=> rm[i].listener_task \in Unfinished
          /\ rm[i].listener_task \in Unfinished
               => start_listener_task(rm[i]) = [task |-> rm[i].listener_task, created |-> 0]
          /\ rm[i].listener_task \notin Unfinished
               => start_listener_task(rm[i]) = [task |-> "running", created |-> 1])
  /\ [][\A i \in Procs :
          tasks'[i] > tasks[i]
            => /\ rm[i].listener_task \in {None, "done"}
               /\ rm'[i].listener_task = "running"
               /\ tasks'[i] = 1]_vars

\* A direct call has started a listener on a manager the lifespan did not
\* start, and the listener is running.
C15_Witness ==
  /\ phase[RmProc] = "connected"
  /\ rm[RmProc].listener_task = "running"
  /\ tasks[RmProc] = 1

\* ------------------------------------------------------------ disconnect claims
\* C16: disconnect of a connection that has no session returns the registry
\* as it was, for a connection never connected as for one already removed;
\* a second disconnect of a connection changes nothing after the first; and
\* the gateway's disconnect of a connection the clean-up of a sweep removed
\* before leaves all three maps unchanged.
C16_DisconnectOfUnknownIsNoOp ==
  /\ [](\A i \in Procs : \A c \in Conns :
          /\ c \notin DOMAIN cm[i].user_sessions => CM_disconnect(cm[i], c) = cm[i]
          /\ CM_disconnect(CM_disconnect(cm[i], c), c) = CM_disconnect(cm[i], c))
  /\ [][\A c \in Conns :
          (pc[c] = "active" /\ pc'[c] \in {"leave", "closed"} /\ ~Registered(c))
            => cm' = cm]_vars

\* The gateway has disconnected a connection that the clean-up of a sweep had
\* disconnected already (no one touched the room during that sweep), while
\* another connection stays registered.
C16_Witness ==
  \E c \in Conns, d \in Conns :
    /\ loop_end[c] # None
    /\ bc[Home(c)].status = "done" /\ c \in bc[Home(c)].disconnected
    /\ ~bc[Home(c)].touched
    /\ Home(d) = Home(c) /\ Registered(d)

\* ------------------------------------------------------------ broadcast claims
\* C17: broadcast_to_room for a room id without an entry in
\* active_connections returns at once: the call has one outcome, with no
\* connection visited; the step that makes it sends nothing, raises nothing
\* (the listener counts no error and goes on) and leaves the three maps as
\* they were, without an entry for the room.
C17_BroadcastToUntrackedRoomIsNoOp ==
  /\ [](\A i \in Procs : \A room_id \in DefaultRooms :
          room_id \notin DOMAIN cm[i].active_connections
            => BroadcastFrames(cm[i], room_id, NoMsg)
                 = {[NoFrame EXCEPT !.status = "noroom", !.room = room_id]})
  /\ [][\A i \in Procs :
          (/\ handled'[i] # handled[i]
           /\ RoomOfChannel(Head(inbox[i]).channel) \notin DOMAIN cm[i].active_connections)
            => /\ bc'[i].status = "noroom" /\ bc'[i].visited = {} /\ bc'[i].disconnected = {}
               /\ cm' = cm /\ received' = received
               /\ bad' = bad /\ faults' = faults /\ rm' = rm]_vars

\* The handler was called for a room the process no longer tracks while it
\* tracks another room.
C17_Witness ==
  \E i \in Procs :
    /\ bc[i].status = "noroom"
    /\ bc[i].room \notin DOMAIN cm[i].active_connections
    /\ DOMAIN cm[i].user_sessions # {}

\* ------------------------------------------------------------ leave claims
\* C18: once a receive loop has ended with a transport disconnect the
\* connection is out of the registry before its leave message is published;
\* the leave message, once the relay is through with it and no call has
\* raised, has been sent to every connection that was registered in the room
\* when it was published and has stayed registered; and it is never sent to
\* the connection that left.
C18_LeaveReachesThoseWhoStay ==
  /\ \A c \in Conns : pc[c] = "leave" => ~Registered(c)
  /\ \A p \in leave_owed : (faults = 0 /\ ~InFlight(p[1])) => HasReceived(p[2], p[1])
  /\ \A c \in Conns : \A k \in 1..Len(received[c]) :
       received[c][k][2].message_type = "LEAVE" => received[c][k][2].user_id # req[c].user_id

\* The step is one of process i's sweep: a send_text has returned or raised.
SweepStep(i) ==
  /\ bc[i].status = "sending"
  /\ bc'[i].status \in {"sending", "done", "raised"}
  /\ bc'[i].status # "sending" \/ bc'[i].visited # bc[i].visited

\* The ids of the sessions of a set of connections.
IdsOf(reg, conns) == {reg.user_sessions[c].id : c \in conns \cap DOMAIN reg.user_sessions}

\* C19: no step of a sweep changes the registry except the step that ends it
\* with the clean-up, and that step removes exactly the connections whose
\* send failed: their sessions, their places in the room sets, and a room's
\* entry when they were its last connections. Every other session, every
\* other room and the registries of other processes stay as they were; a
\* sweep whose sends all succeeded changes nothing.
C19_SweepRemovesOnlyFailedConnections ==
  [][\A i \in Procs :
       SweepStep(i)
         => LET gone == IF bc'[i].status = "done" THEN bc'[i].disconnected ELSE {}
                reg == cm[i]
                after == cm'[i]
            IN /\ gone = {} => after = reg
               /\ DOMAIN after.user_sessions = DOMAIN reg.user_sessions \ gone
               /\ \A c \in DOMAIN after.user_sessions :
                    after.user_sessions[c] = reg.user_sessions[c]
               /\ \A room_id \in DOMAIN reg.active_connections :
                    IF reg.active_connections[room_id] \subseteq gone
                      THEN /\ room_id \notin DOMAIN after.active_connections
                           /\ room_id \notin DOMAIN after.room_members
                      ELSE /\ after.active_connections[room_id]
                                = reg.active_connections[room_id] \ gone
                           /\ after.room_members[room_id]
                                = reg.room_members[room_id] \ IdsOf(reg, gone)
               /\ DOMAIN after.active_connections \subseteq DOMAIN reg.active_connections
               /\ \A j \in Procs \ {i} : cm'[j] = cm[j]]_vars

\* A sweep has ended with one failed send and one that succeeded: the first
\* connection is gone and the second is registered as before.
C19_Witness ==
  \E i \in Procs : \E c \in bc[i].disconnected : \E d \in bc[i].visited \ bc[i].disconnected :
    /\ bc[i].status = "done"
    /\ c \notin DOMAIN cm[i].user_sessions
    /\ d \in DOMAIN cm[i].user_sessions
    /\ HasReceived(d, bc[i].msg)

\* ------------------------------------------------------------ subscription claims
\* C20: while the process runs, its set of subscribed channels only grows:
\* no step removes a channel, and the steps that take a connection out of the
\* registry leave the subscriptions alone. So the process stays subscribed to
\* a room its last connection has left, and each later data message for that
\* room that decodes is handed to the handler, whose broadcast_to_room finds
\* no entry and leaves the registry unchanged.
C20_SubscriptionsOnlyGrow ==
  /\ [][\A i \in Procs :
          /\ subs[i] \subseteq subs'[i]
          /\ DOMAIN cm'[i].user_sessions # DOMAIN cm[i].user_sessions => subs' = subs]_vars
  /\ [][\A i \in Procs :
          (/\ inbox[i] # << >> /\ inbox'[i] = Tail(inbox[i])
           /\ Head(inbox[i]).type = "message" /\ Decodable(Head(inbox[i]).data)
           /\ Head(inbox[i]).channel \in subs[i]
           /\ RoomOfChannel(Head(inbox[i]).channel) \notin DOMAIN cm[i].active_connections)
            => /\ handled'[i] = handled[i] + 1
               /\ bc'[i].status = "noroom"
               /\ bc'[i].room = RoomOfChannel(Head(inbox[i]).channel)
               /\ cm' = cm]_vars

\* The only connection a process had in a room has left, the process is
\* still subscribed to the room, and a message for the room has taken the
\* no-entry path.
C20_Witness ==
  \E c \in Conns :
    /\ loop_end[c] # None
    /\ Channel(req[c].room_id) \in subs[Home(c)]
    /\ req[c].room_id \notin DOMAIN cm[Home(c)].active_connections
    /\ bc[Home(c)].status = "noroom" /\ bc[Home(c)].room = req[c].room_id

\* ------------------------------------------------------------ member counts
\* C21: with every connection registered by the gateway endpoint, which
\* gives each one a user id of its own, every room a process tracks has as
\* many member ids as connections; so get_room_member_count(room) and
\* get_all_rooms()[room] are both the number of connections the process has
\* in the room, which are the connections whose session names the room.
C21_MemberCountIsConnectionCount ==
  \A i \in Procs :
    /\ DOMAIN get_all_rooms(cm[i]) = DOMAIN cm[i].active_connections
    /\ \A room_id \in DOMAIN cm[i].active_connections :
         /\ Cardinality(cm[i].room_members[room_id])
              = Cardinality(cm[i].active_connections[room_id])
         /\ get_room_member_count(cm[i], room_id)
              = Cardinality(cm[i].active_connections[room_id])
         /\ get_all_rooms(cm[i])[room_id]
              = Cardinality(cm[i].active_connections[room_id])
         /\ cm[i].active_connections[room_id] = SessionsIn(cm[i], room_id)

\* Two connections joined one room on one process and one of them has left:
\* the room counts the one that stayed.
C21_Witness ==
  \E c \in Conns, d \in Conns :
    /\ c # d /\ Home(c) = Home(d) /\ req[c].room_id = req[d].room_id
    /\ loop_end[c] # None /\ ~Registered(c)
    /\ Registered(d)
    /\ get_room_member_count(cm[Home(d)], req[d].room_id) = 1
    /\ get_all_rooms(cm[Home(d)])[req[d].room_id] = 1
    /\ cm[Home(d)].active_connections[req[d].room_id] = {d}

====
